---- MODULE Spec2Model ----
(***************************************************************************)
(* A model of the Vesal SMS client (src/src/vesal.ts): the class Vesal     *)
(* with its private Api method and its five public operations, the         *)
(* VesalError class, GetStatusText and the vesalErrors catalog.            *)
(*                                                                         *)
(* JavaScript values are tagged records: [t |-> "undefined"],              *)
(* [t |-> "null"], [t |-> "string", v |-> s], [t |-> "number", v |-> n],   *)
(* [t |-> "array", v |-> <<...>>], [t |-> "object", v |-> record].         *)
(* The Persian texts of the source are written as ASCII glosses, one       *)
(* distinct string per source string.                                      *)
(***************************************************************************)
EXTENDS Integers, Sequences, FiniteSets, TLC

\* ------------------------------------------------------------------ bounds

\* Call slots of the one client (each slot is one invocation at a time).
MaxCalls == 2
\* Longest recipients array a caller passes.
MaxRecipients == 2
\* Longest messages array a caller passes.
MaxMessages == 3
\* Longest array a caller passes as encodings, uids or udhs.
MaxExtras == 3
\* Longest per-recipient list the vendor returns.
MaxVendorMessages == 2

Calls == 1..MaxCalls

\* ------------------------------------------------------- JavaScript values

Undefined == [t |-> "undefined"]
Null == [t |-> "null"]
Str(s) == [t |-> "string", v |-> s]
Num(n) == [t |-> "number", v |-> n]
Arr(a) == [t |-> "array", v |-> a]
Obj(r) == [t |-> "object", v |-> r]

\* ToBoolean: undefined, null, "" and 0 are falsy; arrays and objects are truthy.
Truthy(x) ==
  CASE x.t = "undefined" -> FALSE
    [] x.t = "null" -> FALSE
    [] x.t = "string" -> x.v # ""
    [] x.t = "number" -> x.v # 0
    [] OTHER -> TRUE

\* Array(n).fill(x)
Fill(n, x) == [i \in 1..n |-> x]

\* { ...obj, ...over }: the fields of obj, those of over added or replacing.
Spread(obj, over) ==
  [k \in DOMAIN obj \cup DOMAIN over |-> IF k \in DOMAIN over THEN over[k] ELSE obj[k]]

\* JSON.stringify of an object: properties whose value is undefined are dropped.
JSONstringify(data) ==
  [t |-> "json", v |-> [k \in {f \in DOMAIN data : data[f].t # "undefined"} |-> data[k]]]

\* ----------------------------------------------------------------- catalog

vesalErrors ==
  1 :> "Recipient number is incorrect" @@
  2 :> "Sender number is incorrect" @@
  3 :> "The encoding parameter is invalid. (check the message text against the chosen encoding)" @@
  4 :> "The mclass parameter is invalid" @@
  6 :> "The UDH parameter is invalid" @@
  13 :> "The message content (UDH plus text) is empty. (recheck the message text and the UDH parameter)" @@
  14 :> "The remaining rial credit needed to send the message is not enough" @@
  15 :> "The server was fixing an internal fault while sending. (send the request again)" @@
  16 :> "The account is inactive. (contact sales)" @@
  17 :> "The account has expired. (contact sales)" @@
  18 :> "The username or password is invalid. (recheck username and password)" @@
  19 :> "The request is not valid. (wrong username, password and domain combination)" @@
  20 :> "The sender number does not belong to the account" @@
  22 :> "This service is not enabled for the account" @@
  23 :> "A new request cannot be processed right now, try again. (send the request again)" @@
  24 :> "The message id is not valid. (wrong id, or a message sent more than a day ago)" @@
  25 :> "The requested method name is not valid. (check the method name)" @@
  27 :> "The recipient number is on the operator blacklist. (no advertising to this number)" @@
  28 :> "The recipient number is currently blocked by prefix at Magfa" @@
  29 :> "The source IP address is not allowed to use this service" @@
  30 :> "The number of message parts is above the standard limit (265)" @@
  31 :> "The data needed for sending is not enough. (fix the HTTP request)" @@
  101 :> "The length of the messageBodies array does not match the recipients array" @@
  102 :> "The length of the messageClass array does not match the recipients array" @@
  103 :> "The length of the senderNumbers array does not match the recipients array" @@
  104 :> "The length of the udhs array does not match the recipients array" @@
  105 :> "The length of the priorities array does not match the recipients array" @@
  106 :> "The recipients array is empty" @@
  107 :> "The recipients array is longer than allowed" @@
  108 :> "The senders array is empty" @@
  109 :> "The length of the encoding array does not match the recipients array" @@
  110 :> "The length of the checkingMessageIds array does not match the recipients array"

\* Object.keys(obj): the property names, as strings.
ObjectKeys(obj) == {ToString(k) : k \in DOMAIN obj}

\* Object.keys(vesalErrors).includes("" + status)
IsVesalErrorKey(status) == ToString(status) \in ObjectKeys(vesalErrors)

GetStatusText(status) ==
  IF status = 0 THEN "success"
  ELSE IF IsVesalErrorKey(status) THEN vesalErrors[status]
  ELSE ""

messageStatuses ==
  (-1) :> "The id does not exist (wrong id, or more than 24 hours since sending)" @@
  0 :> "No status received" @@
  1 :> "Delivered to the phone" @@
  2 :> "Not delivered to the phone" @@
  8 :> "Delivered to the operator" @@
  16 :> "Not delivered to the operator"

\* The text the README gives for the code -104, "insufficient credit", and
\* as the value of GetStatusText(-104).
InsufficientCreditText == "Credit is low"

\* The text Send gives an entry whose status is 0.
SentMessageText == "The message was delivered successfully"

\* --------------------------------------------------------------- VesalError

\* VesalError with the catalog searched for the number itself, not for its
\* string: Object.keys gives strings, so no status is ever found.
VesalError_NumberKey(statusParam, messageParam) ==
  [name |-> "VesalError",
   status |-> Undefined,
   message |-> IF Truthy(messageParam) THEN messageParam.v ELSE "Unknown Vesal error"]

\* new VesalError(statusParam, messageParam): statusParam is Undefined or a
\* Num, messageParam is Undefined or a Str.
VesalError(statusParam, messageParam) ==
  IF Truthy(statusParam) /\ IsVesalErrorKey(statusParam.v)
  THEN [name |-> "VesalError",
        status |-> statusParam,
        message |-> GetStatusText(statusParam.v)]
  ELSE [name |-> "VesalError",
        status |-> Undefined,
        message |-> IF Truthy(messageParam) THEN messageParam.v ELSE "Unknown Vesal error"]

\* The error of reading a property of undefined (result.messages.map).
TypeError ==
  [name |-> "TypeError",
   status |-> Undefined,
   message |-> "Cannot read properties of undefined (reading 'map')"]

Resolved(value) == [kind |-> "resolved", value |-> value]
Rejected(error) == [kind |-> "rejected", error |-> error]
Pending == [kind |-> "pending"]

\* ------------------------------------------------------------------ client

apiUrl == "https://sms.vesal.com/api/http/sms/v2"

\* Buffer.from(s).toString("base64"), kept as the encoding of s.
Base64(s) == [base64 |-> s]

\* constructor(username, password, domain, from); username is a tagged value
\* (a caller may leave it out), the others are strings.
Constructor(username, password, domain, from) ==
  LET u == IF Truthy(username) THEN username.v ELSE ""
  IN [username |-> u,
      password |-> password,
      domain |-> domain,
      from |-> from,
      authHeader |-> [scheme |-> "Basic ",
                     credentials |-> Base64(u \o "/" \o domain \o ":" \o password)]]

\* mids.join(",")
RECURSIVE Join(_)
Join(seq) ==
  IF Len(seq) = 0 THEN ""
  ELSE IF Len(seq) = 1 THEN ToString(seq[1])
  ELSE ToString(seq[1]) \o "," \o Join(Tail(seq))

\* The argument of fetch in Api: the URL and the init object. data is
\* Undefined or an Obj.
FetchRequest(this, urlSuffix, method, data) ==
  [url |-> apiUrl \o "/" \o urlSuffix,
   headers |-> [Accept |-> "application/json",
                ContentType |-> "application/json",
                Authorization |-> this.authHeader],
   method |-> method,
   body |-> IF Truthy(data) THEN JSONstringify(data.v) ELSE Undefined]

Return(value) == [kind |-> "return", value |-> value]
Throw(error) == [kind |-> "throw", error |-> error]

\* Api, when fetch throws.
ApiFetchFailed == Throw(VesalError(Undefined, Str("Server connection failed")))

\* Api, when response.json() throws.
ApiJsonFailed == Throw(VesalError(Undefined, Str("The server didn't respond correctly")))

\* ApiBody with only a null body refused: a body without status is returned.
ApiBody_NullOnly(responseBody) ==
  IF responseBody.t # "object"
  THEN Throw(VesalError(Undefined, Str("The server didn't respond correctly")))
  ELSE IF responseBody.v.status.t = "number"
          /\ responseBody.v.status.v # 0
          /\ IsVesalErrorKey(responseBody.v.status.v)
  THEN Throw(VesalError(responseBody.v.status, Undefined))
  ELSE Return(responseBody)

\* Api, from the parsed body on: responseBody is Null or an Obj whose status
\* is Undefined (no such property) or a Num.
ApiBody(responseBody) ==
  IF responseBody.t # "object" \/ responseBody.v.status.t = "undefined"
  THEN Throw(VesalError(Undefined, Str("The server didn't respond correctly")))
  ELSE IF responseBody.v.status.t = "number" /\ responseBody.v.status.v = 0
  THEN Return(responseBody)
  ELSE IF responseBody.v.status.t = "number" /\ IsVesalErrorKey(responseBody.v.status.v)
  THEN Throw(VesalError(responseBody.v.status, Undefined))
  ELSE Return(responseBody)

\* -------------------------------------------------------------------- Send

\* typeof x === "string" ? [x] : x
WrapString(x) == IF x.t = "string" THEN Arr(<<x.v>>) ELSE x

\* SendArgumentError without the single-message case: the lengths must agree.
SendArgumentError_SameLength(args) ==
  IF ~Truthy(args.recipients) \/ ~Truthy(args.messages)
  THEN <<VesalError(Undefined, Str("recipients and messages should not be empty"))>>
  ELSE IF Len(WrapString(args.messages).v) = 0
          \/ Len(WrapString(args.recipients).v) # Len(WrapString(args.messages).v)
  THEN <<VesalError(Undefined, Str("recipients and messages should have the same length"))>>
  ELSE <<>>

\* SendArgumentError with the arrays among encodings, uids and udhs held to
\* the rule of messages.
SendArgumentError_ExtrasChecked(args) ==
  IF ~Truthy(args.recipients) \/ ~Truthy(args.messages)
  THEN <<VesalError(Undefined, Str("recipients and messages should not be empty"))>>
  ELSE IF \E x \in {WrapString(args.messages), args.encodings, args.uids, args.udhs} :
            /\ x.t = "array"
            /\ Len(x.v) = 0
                 \/ (Len(WrapString(args.recipients).v) # Len(x.v) /\ Len(x.v) # 1)
  THEN <<VesalError(Undefined, Str("recipients and messages should have the same length"))>>
  ELSE <<>>

\* The argument checks of Send: <<>> when the call goes on, <<error>> when
\* it throws.
SendArgumentError(args) ==
  IF ~Truthy(args.recipients) \/ ~Truthy(args.messages)
  THEN <<VesalError(Undefined, Str("recipients and messages should not be empty"))>>
  ELSE LET recipients == WrapString(args.recipients)
           messages == WrapString(args.messages)
       IN IF Len(messages.v) = 0
             \/ (Len(recipients.v) # Len(messages.v) /\ Len(messages.v) # 1)
          THEN <<VesalError(Undefined, Str("recipients and messages should have the same length"))>>
          ELSE <<>>

\* const senders = Array(recipients.length).fill(this.from)
Senders(this, recipients) == Arr(Fill(Len(recipients.v), Str(this.from)))

\* encodings, as sent: a truthy non-array is filled to the recipients' length.
SendEncodings(encodings, recipients) ==
  IF Truthy(encodings) /\ encodings.t # "array"
  THEN Arr(Fill(Len(recipients.v), encodings))
  ELSE encodings

\* SendData with one sender per message (messages.map(() => this.from)).
SendData_SendersPerMessage(this, args) ==
  Obj([recipients |-> WrapString(args.recipients),
       messages |-> WrapString(args.messages),
       senders |-> Arr(Fill(Len(WrapString(args.messages).v), Str(this.from))),
       encodings |-> SendEncodings(args.encodings, WrapString(args.recipients)),
       uids |-> args.uids,
       udhs |-> args.udhs])

\* sendData of a call that passed the argument checks.
SendData(this, args) ==
  LET recipients == WrapString(args.recipients)
      messages == WrapString(args.messages)
  IN Obj([recipients |-> recipients,
          messages |-> messages,
          senders |-> Senders(this, recipients),
          encodings |-> SendEncodings(args.encodings, recipients),
          uids |-> args.uids,
          udhs |-> args.udhs])

\* SendMapStep counting as failed only the entries whose code the catalog holds.
SendMapStep_KnownOnly(acc, messageResult) ==
  [messagesMutated |->
     Append(acc.messagesMutated,
            Spread(messageResult, [message |-> GetStatusText(messageResult.status)])),
   successCount |-> acc.successCount + (IF messageResult.status = 0 THEN 1 ELSE 0),
   failCount |-> acc.failCount + (IF IsVesalErrorKey(messageResult.status) THEN 1 ELSE 0)]

\* SendMapStep building each entry anew from its status and text, the other
\* fields of the vendor's entry left behind.
SendMapStep_StatusOnly(acc, messageResult) ==
  [messagesMutated |->
     Append(acc.messagesMutated,
            [status |-> messageResult.status,
             message |-> IF messageResult.status = 0
                         THEN SentMessageText
                         ELSE GetStatusText(messageResult.status)]),
   successCount |-> acc.successCount + (IF messageResult.status = 0 THEN 1 ELSE 0),
   failCount |-> acc.failCount + (IF messageResult.status = 0 THEN 0 ELSE 1)]

\* The callback of result.messages.map: acc holds messagesMutated,
\* successCount and failCount.
SendMapStep(acc, messageResult) ==
  IF messageResult.status = 0
  THEN [messagesMutated |->
          Append(acc.messagesMutated, Spread(messageResult, [message |-> SentMessageText])),
        successCount |-> acc.successCount + 1,
        failCount |-> acc.failCount]
  ELSE [messagesMutated |->
          Append(acc.messagesMutated,
                 Spread(messageResult, [message |-> GetStatusText(messageResult.status)])),
        successCount |-> acc.successCount,
        failCount |-> acc.failCount + 1]

RECURSIVE SendMap(_, _)
SendMap(acc, list) ==
  IF Len(list) = 0 THEN acc ELSE SendMap(SendMapStep(acc, Head(list)), Tail(list))

\* Send after Api returned result (an Obj): reading result.messages.map of
\* a result without a messages array throws a TypeError.
SendReturn(result) ==
  IF result.v.messages.t # "array"
  THEN Rejected(TypeError)
  ELSE LET acc == SendMap([messagesMutated |-> <<>>, successCount |-> 0, failCount |-> 0],
                          result.v.messages.v)
       IN Resolved(Obj(Spread(result.v,
                              [messages |-> Arr(acc.messagesMutated),
                               count |-> [success |-> acc.successCount,
                                          fail |-> acc.failCount]])))

\* Mid after Api returned result: { ...result, mid: result.mid || undefined }
MidReturn(result) ==
  Resolved(Obj(Spread(result.v,
                      [mid |-> IF Truthy(result.v.mid) THEN result.v.mid ELSE Undefined])))

\* What an operation does with the value Api returned.
OperationReturn(op, result) ==
  CASE op = "Send" -> SendReturn(result)
    [] op = "Mid" -> MidReturn(result)
    [] OTHER -> Resolved(result)

\* An operation whose Api call ended in api (a Return or a Throw).
Settle(op, api) ==
  IF api.kind = "throw" THEN Rejected(api.error) ELSE OperationReturn(op, api.value)

\* ------------------------------------------------------------------ inputs

\* The recipients a caller passes: nothing, a string, an array.
Phone(i) == "0912000000" \o ToString(i)
RecipientsInputs ==
  {Undefined, Str(""), Str(Phone(1))}
    \cup {Arr([i \in 1..n |-> Phone(i)]) : n \in 0..MaxRecipients}

\* The messages a caller passes: nothing, a string, an array.
MessagesInputs ==
  {Undefined, Str(""), Str("hi")} \cup {Arr(Fill(n, "hi")) : n \in 0..MaxMessages}

\* The extras a caller passes: none, a single encoding (Encoding.Auto = 0,
\* Encoding.Persian = 2), or one of the three as an array.
NoExtras == [encodings |-> Undefined, uids |-> Undefined, udhs |-> Undefined]
ExtrasInputs ==
  {NoExtras}
    \cup {Spread(NoExtras, [encodings |-> Num(e)]) : e \in {0, 2}}
    \cup {Spread(NoExtras, [encodings |-> Arr(Fill(n, Num(2)))]) : n \in 0..MaxExtras}
    \cup {Spread(NoExtras, [uids |-> Arr([i \in 1..n |-> i])]) : n \in 0..MaxExtras}
    \cup {Spread(NoExtras, [udhs |-> Arr(Fill(n, "0500"))]) : n \in 0..MaxExtras}

SendInputs ==
  {Spread([recipients |-> r, messages |-> m], x) :
     r \in RecipientsInputs, m \in MessagesInputs, x \in ExtrasInputs}

MidsInputs == {<<>>, <<11>>, <<11, 12>>}
UidInputs == {5}
CountInputs == {100, 10}

\* The status of a response envelope: none, success, two catalog keys, and
\* two codes the catalog does not hold.
EnvelopeStatuses == {Undefined} \cup {Num(n) : n \in {0, 14, 104, -104, 999}}

\* The status of one entry of the vendor's list: success, a catalog key, a
\* code the catalog does not hold.
EntryStatuses == {0, 1, 999}

VendorLists ==
  UNION {[1..n -> EntryStatuses] : n \in 0..MaxVendorMessages}

\* The vendor's list: entry i carries a status and the id 100 + i.
VendorMessages(statuses) ==
  Arr([i \in 1..Len(statuses) |-> [status |-> statuses[i], id |-> 100 + i]])

\* The bodies response.json() can give an operation: null, or an object
\* with or without a status, with the payload the operation reads with or
\* without it.
ResponseBodies(op) ==
  {Null} \cup
  {Obj([status |-> st, messages |-> ms, mid |-> md]) :
     st \in EnvelopeStatuses,
     ms \in IF op = "Send"
            THEN {Undefined} \cup {VendorMessages(l) : l \in VendorLists}
            ELSE {Undefined},
     md \in IF op = "Mid" THEN {Undefined, Num(0), Num(7)} ELSE {Undefined}}

\* ------------------------------------------------------------------- state

VARIABLES
  client,   \* the fields of the Vesal instance
  calls,    \* per call slot: where the call is, its operation, arguments, outcome
  fetches   \* per call slot: the fetch requests the call has issued so far

vars == <<client, calls, fetches>>

NoArgs == [none |-> TRUE]

\* What the transport has given a call so far: nothing yet, a rejected
\* fetch, a response, a response whose body is not JSON, a parsed body.
NoTransport == [kind |-> "none"]
FetchFailed == [kind |-> "fetchFailed"]
Response == [kind |-> "response"]
NotJson == [kind |-> "notJson"]
Json(responseBody) == [kind |-> "json", body |-> responseBody]

IdleCall ==
  [pc |-> "idle", op |-> "none", args |-> NoArgs, transport |-> NoTransport,
   outcome |-> Pending]

Init ==
  /\ client = Constructor(Str("user"), "secret", "example", "50002710")
  /\ calls = [c \in Calls |-> IdleCall]
  /\ fetches = [c \in Calls |-> <<>>]

\* Api up to its first await: fetch is called with the request.
ApiCall(c, op, args, urlSuffix, method, data) ==
  /\ calls' = [calls EXCEPT ![c] =
                 [pc |-> "awaitFetch", op |-> op, args |-> args,
                  transport |-> NoTransport, outcome |-> Pending]]
  /\ fetches' = [fetches EXCEPT ![c] =
                   Append(@, FetchRequest(client, urlSuffix, method, data))]
  /\ UNCHANGED client

\* A call that ends with outcome.
Finish(c, op, args, transport, outcome) ==
  calls' = [calls EXCEPT ![c] =
              [pc |-> "settled", op |-> op, args |-> args,
               transport |-> transport, outcome |-> outcome]]

\* Send({recipients, messages, encodings, uids, udhs}), up to the await of Api.
Send(c, args) ==
  /\ calls[c].pc = "idle"
  /\ IF SendArgumentError(args) # <<>>
     THEN /\ Finish(c, "Send", args, NoTransport, Rejected(SendArgumentError(args)[1]))
          /\ UNCHANGED <<client, fetches>>
     ELSE ApiCall(c, "Send", args, "send", "POST", SendData(client, args))

\* Statuses(mids), up to the await of Api.
Statuses(c, mids) ==
  /\ calls[c].pc = "idle"
  /\ ApiCall(c, "Statuses", [mids |-> mids], "statuses/" \o Join(mids), "GET", Undefined)

\* Mid(uid), up to the await of Api.
Mid(c, uid) ==
  /\ calls[c].pc = "idle"
  /\ ApiCall(c, "Mid", [uid |-> uid], "mid/" \o ToString(uid), "GET", Undefined)

\* Balance(), up to the await of Api.
Balance(c) ==
  /\ calls[c].pc = "idle"
  /\ ApiCall(c, "Balance", NoArgs, "balance", "GET", Undefined)

\* ReceivedMessages(count = 100), up to the await of Api.
ReceivedMessages(c, count) ==
  /\ calls[c].pc = "idle"
  /\ ApiCall(c, "ReceivedMessages", [count |-> count],
             "messages/" \o ToString(count), "GET", Undefined)

\* FetchFails with one retry: a first rejected fetch is issued again.
FetchFails_Retry(c) ==
  /\ calls[c].pc = "awaitFetch"
  /\ IF Len(fetches[c]) < 2
     THEN /\ fetches' = [fetches EXCEPT ![c] = Append(@, @[1])]
          /\ UNCHANGED <<client, calls>>
     ELSE /\ Finish(c, calls[c].op, calls[c].args, FetchFailed,
                    Settle(calls[c].op, ApiFetchFailed))
          /\ UNCHANGED <<client, fetches>>

\* fetch rejects: Api throws, and the operation with it.
FetchFails(c) ==
  /\ calls[c].pc = "awaitFetch"
  /\ Finish(c, calls[c].op, calls[c].args, FetchFailed,
            Settle(calls[c].op, ApiFetchFailed))
  /\ UNCHANGED <<client, fetches>>

\* fetch resolves with a response: Api goes on to await response.json().
FetchResponds(c) ==
  /\ calls[c].pc = "awaitFetch"
  /\ calls' = [calls EXCEPT ![c].pc = "awaitJson", ![c].transport = Response]
  /\ UNCHANGED <<client, fetches>>

\* response.json() rejects (the body is not JSON).
JsonFails(c) ==
  /\ calls[c].pc = "awaitJson"
  /\ Finish(c, calls[c].op, calls[c].args, NotJson,
            Settle(calls[c].op, ApiJsonFailed))
  /\ UNCHANGED <<client, fetches>>

\* response.json() resolves with responseBody: the rest of Api, then the
\* rest of the operation that awaited it.
JsonParsed(c, responseBody) ==
  /\ calls[c].pc = "awaitJson"
  /\ Finish(c, calls[c].op, calls[c].args, Json(responseBody),
            Settle(calls[c].op, ApiBody(responseBody)))
  /\ UNCHANGED <<client, fetches>>

\* The caller has taken the outcome; the slot is free for its next call.
Forget(c) ==
  /\ calls[c].pc = "settled"
  /\ calls' = [calls EXCEPT ![c] = IdleCall]
  /\ fetches' = [fetches EXCEPT ![c] = <<>>]
  /\ UNCHANGED client

\* A caller that awaits each call before it makes the next.
NoCallInFlight == \A c \in Calls : calls[c].pc = "idle"

Invoke(c) ==
  \/ NoCallInFlight /\ \E args \in SendInputs : Send(c, args)
  \/ NoCallInFlight /\ \E mids \in MidsInputs : Statuses(c, mids)
  \/ NoCallInFlight /\ \E uid \in UidInputs : Mid(c, uid)
  \/ NoCallInFlight /\ Balance(c)
  \/ NoCallInFlight /\ \E count \in CountInputs : ReceivedMessages(c, count)

Progress(c) ==
  \/ FetchFails(c)
  \/ FetchResponds(c)
  \/ JsonFails(c)
  \/ \E responseBody \in ResponseBodies(calls[c].op) : JsonParsed(c, responseBody)
  \/ Forget(c)

Next == \E c \in Calls : Invoke(c) \/ Progress(c)

Spec == Init /\ [][Next]_vars

\* ------------------------------------------------------- concurrent calls

\* The Send calls of concurrent callers: a bare message to one recipient,
\* one message to two recipients, two messages to one recipient.
ConcurrentSendInputs ==
  {Spread([recipients |-> r, messages |-> m], NoExtras) :
     <<r, m>> \in {<<Str(Phone(1)), Str("hi")>>,
                   <<Arr(<<Phone(1), Phone(2)>>), Arr(<<"hi">>)>>,
                   <<Arr(<<Phone(1)>>), Arr(<<"hi", "hi">>)>>}}

\* The bodies response.json() gives them: null, no status, success with
\* the payload, a catalog key, a code outside the catalog.
ConcurrentBodies(op) ==
  {Null, Obj([status |-> Undefined, messages |-> Undefined, mid |-> Undefined])} \cup
  {Obj([status |-> Num(n),
        messages |-> IF op = "Send" /\ n = 0 THEN VendorMessages(<<0>>) ELSE Undefined,
        mid |-> IF op = "Mid" /\ n = 0 THEN Num(7) ELSE Undefined]) :
     n \in {0, 14, 999}}

\* Callers that do not wait for one another: any idle slot starts a call.
InvokeConcurrent(c) ==
  \/ \E args \in ConcurrentSendInputs : Send(c, args)
  \/ Statuses(c, <<11, 12>>)
  \/ Mid(c, 5)
  \/ Balance(c)
  \/ ReceivedMessages(c, 100)

ProgressConcurrent(c) ==
  \/ FetchFails(c)
  \/ FetchResponds(c)
  \/ JsonFails(c)
  \/ \E responseBody \in ConcurrentBodies(calls[c].op) : JsonParsed(c, responseBody)
  \/ Forget(c)

NextConcurrent == \E c \in Calls : InvokeConcurrent(c) \/ ProgressConcurrent(c)

SpecConcurrent == Init /\ [][NextConcurrent]_vars

\* ------------------------------------------------------ words of the claims

SendCalls == {c \in Calls : calls[c].op = "Send"}
SettledCalls == {c \in Calls : calls[c].pc = "settled"}

\* A value a caller left out or gave empty: undefined, "" or [].
EmptyOrAbsent(x) ==
  \/ x.t = "undefined"
  \/ x.t = "string" /\ x.v = ""
  \/ x.t = "array" /\ Len(x.v) = 0

\* The number of recipients of a Send call: one for a string, the length of
\* an array.
NumRecipients(args) ==
  CASE args.recipients.t = "array" -> Len(args.recipients.v)
    [] args.recipients.t = "string" -> 1
    [] OTHER -> 0

\* The number of messages, a bare string counting as a one-element sequence.
NumMessages(args) ==
  CASE args.messages.t = "array" -> Len(args.messages.v)
    [] args.messages.t = "string" -> 1
    [] OTHER -> 0

\* An invalid (recipients, messages) pair: one of the two empty or absent,
\* or messages a sequence whose length is neither 1 nor the recipients'.
InvalidPair(args) ==
  \/ EmptyOrAbsent(args.recipients)
  \/ EmptyOrAbsent(args.messages)
  \/ args.messages.t = "array" /\ NumMessages(args) \notin {1, NumRecipients(args)}

\* A valid pair: neither empty nor absent, and one message or one per recipient.
ValidPair(args) ==
  /\ ~EmptyOrAbsent(args.recipients)
  /\ ~EmptyOrAbsent(args.messages)
  /\ NumMessages(args) \in {1, NumRecipients(args)}

ArgumentMessages ==
  {"recipients and messages should not be empty",
   "recipients and messages should have the same length"}
TransportMessages ==
  {"Server connection failed", "The server didn't respond correctly"}
CatalogTexts == {vesalErrors[k] : k \in DOMAIN vesalErrors}

\* The four kinds of error of the client.
IsInvalidArgument(e) ==
  e.name = "VesalError" /\ e.status = Undefined /\ e.message \in ArgumentMessages
IsTransportError(e) ==
  e.name = "VesalError" /\ e.status = Undefined /\ e.message \in TransportMessages
IsKnownApiError(e) ==
  /\ e.name = "VesalError"
  /\ e.status.t = "number"
  /\ e.status.v \in DOMAIN vesalErrors
  /\ e.message = vesalErrors[e.status.v]
IsUnknownApiError(e) ==
  e.name = "VesalError" /\ e.status = Undefined /\ e.message = "Unknown Vesal error"

RejectedInvalidArgument(c) ==
  calls[c].outcome.kind = "rejected" /\ IsInvalidArgument(calls[c].outcome.error)
RejectedTransportError(c) ==
  calls[c].outcome.kind = "rejected" /\ IsTransportError(calls[c].outcome.error)
RejectedUnknownApiError(c) ==
  calls[c].outcome.kind = "rejected" /\ IsUnknownApiError(calls[c].outcome.error)

\* The call was given a parsed body that is an object with a numeric status.
HasEnvelopeStatus(c) ==
  /\ calls[c].transport.kind = "json"
  /\ calls[c].transport.body.t = "object"
  /\ calls[c].transport.body.v.status.t = "number"
EnvelopeStatus(c) == calls[c].transport.body.v.status.v

\* The transport failed the call: fetch threw, the body was not JSON, or
\* the parsed JSON (null included) has no status.
TransportFailed(c) ==
  \/ calls[c].transport.kind \in {"fetchFailed", "notJson"}
  \/ /\ calls[c].transport.kind = "json"
     /\ \/ calls[c].transport.body.t # "object"
        \/ calls[c].transport.body.v.status.t = "undefined"

\* ------------------------------------------------------------------ claims

\* C1: every Send call whose (recipients, messages) pair is invalid
\* (recipients empty or absent, an empty array included; messages empty or
\* absent; messages a sequence whose length is neither 1 nor the number of
\* recipients) issues no fetch at any point and rejects with the argument
\* error, a VesalError without status.
C1_InvalidPairRejectedWithoutFetch ==
  \A c \in SendCalls :
    InvalidPair(calls[c].args) =>
      /\ fetches[c] = <<>>
      /\ calls[c].pc = "settled"
      /\ RejectedInvalidArgument(c)

\* C2, as claimed: whenever Send resolves, count.success + count.fail is
\* the number of recipients passed, whatever list the vendor returned.
C2_CountsSumToRecipients ==
  \A c \in SendCalls :
    calls[c].outcome.kind = "resolved" =>
      calls[c].outcome.value.v.count.success + calls[c].outcome.value.v.count.fail
        = NumRecipients(calls[c].args)

\* C2, amended: whenever Send resolves, count.success + count.fail is the
\* length of the messages list the vendor returned (and of the list Send
\* returns); it is the number of recipients exactly when the vendor
\* returned one entry per recipient.
C2_CountsSumToVendorList ==
  \A c \in SendCalls :
    calls[c].outcome.kind = "resolved" =>
      LET count == calls[c].outcome.value.v.count
          vendor == calls[c].transport.body.v.messages.v
      IN /\ count.success + count.fail = Len(vendor)
         /\ count.success + count.fail = Len(calls[c].outcome.value.v.messages.v)
         /\ count.success = Cardinality({i \in 1..Len(vendor) : vendor[i].status = 0})
         /\ (count.success + count.fail = NumRecipients(calls[c].args))
              <=> (Len(vendor) = NumRecipients(calls[c].args))

\* A Send for two recipients resolved on a vendor list holding a success
\* and a code outside the catalog.
C2_Witness ==
  \E c \in SendCalls :
    /\ calls[c].outcome.kind = "resolved"
    /\ NumRecipients(calls[c].args) = 2
    /\ calls[c].outcome.value.v.count = [success |-> 1, fail |-> 1]
    /\ \E i \in 1..2 : calls[c].transport.body.v.messages.v[i].status = 999

\* C3: for every operation, a parsed body whose status is present, not 0
\* and a key of vesalErrors makes the operation reject with a VesalError
\* whose status is that code and whose message is the catalog text of that
\* code; nothing is returned.
C3_KnownCodeRejects ==
  \A c \in SettledCalls :
    (HasEnvelopeStatus(c) /\ EnvelopeStatus(c) # 0
       /\ EnvelopeStatus(c) \in DOMAIN vesalErrors) =>
      /\ calls[c].outcome.kind = "rejected"
      /\ calls[c].outcome.error.name = "VesalError"
      /\ calls[c].outcome.error.status = Num(EnvelopeStatus(c))
      /\ calls[c].outcome.error.message = vesalErrors[EnvelopeStatus(c)]

\* A Mid call rejected on the envelope code 104.
C3_Witness ==
  \E c \in SettledCalls :
    /\ calls[c].op = "Mid"
    /\ HasEnvelopeStatus(c)
    /\ EnvelopeStatus(c) = 104
    /\ calls[c].outcome.kind = "rejected"

\* A Send call whose parsed body holds no messages list (the case of C6).
SendWithoutList(c) ==
  /\ calls[c].op = "Send"
  /\ calls[c].transport.kind = "json"
  /\ calls[c].transport.body.t = "object"
  /\ calls[c].transport.body.v.messages.t # "array"

\* C4: for every operation, a parsed body whose status is present, not 0
\* and a key of no catalog makes the operation reject with the generic
\* fallback message and no code; the response is not returned as a success.
\* (Stated for all calls but a Send whose body has no messages list.)
C4_UnknownCodeRejects ==
  \A c \in SettledCalls :
    (HasEnvelopeStatus(c) /\ EnvelopeStatus(c) # 0
       /\ ~SendWithoutList(c)
       /\ EnvelopeStatus(c) \notin DOMAIN vesalErrors
       /\ EnvelopeStatus(c) \notin DOMAIN messageStatuses) =>
      RejectedUnknownApiError(c)

\* C5: for every operation, a failed transport (fetch threw, the body was
\* not JSON, the parsed JSON has no status) makes the operation reject with
\* a VesalError without status whose message is the fixed generic string of
\* that failure, never a catalog text.
C5_TransportFailureRejects ==
  \A c \in SettledCalls :
    TransportFailed(c) =>
      /\ RejectedTransportError(c)
      /\ calls[c].outcome.error.message \notin CatalogTexts
      /\ calls[c].outcome.error.message =
           IF calls[c].transport.kind = "fetchFailed"
           THEN "Server connection failed"
           ELSE "The server didn't respond correctly"

\* A ReceivedMessages call rejected on a body without a status.
C5_Witness ==
  \E c \in SettledCalls :
    /\ calls[c].op = "ReceivedMessages"
    /\ calls[c].transport.kind = "json"
    /\ calls[c].transport.body.t = "object"
    /\ calls[c].transport.body.v.status = Undefined
    /\ calls[c].outcome.kind = "rejected"

\* A resolved value in its final shape: Send's carries the counts and a
\* message on every entry, Mid's carries no falsy mid.
FullyNormalized(c) ==
  LET value == calls[c].outcome.value
  IN /\ value.t = "object"
     /\ calls[c].op = "Send" =>
          /\ "count" \in DOMAIN value.v
          /\ value.v.messages.t = "array"
          /\ \A i \in 1..Len(value.v.messages.v) :
               "message" \in DOMAIN value.v.messages.v[i]
     /\ calls[c].op = "Mid" => (value.v.mid = Undefined \/ Truthy(value.v.mid))

\* The envelope of the call carries a code that is not 0 and that the
\* catalog does not hold.
UncataloguedEnvelope(c) ==
  HasEnvelopeStatus(c) /\ EnvelopeStatus(c) # 0 /\ EnvelopeStatus(c) \notin DOMAIN vesalErrors

\* C6: every operation, on every outcome of the transport (here all but an
\* uncatalogued envelope code, which C4 is about), either resolves with a
\* fully normalized result or rejects with a VesalError of one of the four
\* kinds; it never rejects with another exception (a raw TypeError).
C6_ResolvesOrRejectsWithVesalError ==
  \A c \in SettledCalls :
    \/ UncataloguedEnvelope(c)
    \/ calls[c].outcome.kind = "resolved" /\ FullyNormalized(c)
    \/ /\ calls[c].outcome.kind = "rejected"
       /\ \/ IsInvalidArgument(calls[c].outcome.error)
          \/ IsTransportError(calls[c].outcome.error)
          \/ IsKnownApiError(calls[c].outcome.error)
          \/ IsUnknownApiError(calls[c].outcome.error)

\* The Send call was not rejected by its argument checks.
PassedValidation(c) ==
  ~(calls[c].pc = "settled" /\ calls[c].transport.kind = "none")

SendUrl == apiUrl \o "/send"
PostedBody(c) == fetches[c][1].body.v

\* C7, as claimed, for the calls that name a recipient: every Send call that
\* passes validation issues exactly one POST, to the 'send' endpoint, in
\* whose body recipients, messages and senders all have the length of the
\* recipients (a single message being expanded), every sender being the
\* client's default sender.
C7_AllExpandedToRecipients ==
  \A c \in SendCalls :
    (PassedValidation(c) /\ ~EmptyOrAbsent(calls[c].args.recipients)) =>
      /\ Len(fetches[c]) = 1
      /\ fetches[c][1].method = "POST"
      /\ fetches[c][1].url = SendUrl
      /\ Len(PostedBody(c).recipients.v) = NumRecipients(calls[c].args)
      /\ Len(PostedBody(c).messages.v) = NumRecipients(calls[c].args)
      /\ Len(PostedBody(c).senders.v) = NumRecipients(calls[c].args)
      /\ \A i \in 1..Len(PostedBody(c).senders.v) :
           PostedBody(c).senders.v[i] = Str(client.from)

\* C7, amended: every Send call that passes validation issues exactly one
\* POST, to the 'send' endpoint, in whose body recipients and senders have
\* the length of the recipients, every sender being the client's default
\* sender; messages is sent as given (a bare string as a one-element
\* sequence), of length 1 or the number of recipients, and not expanded.
C7_MessagesSentAsGiven ==
  \A c \in SendCalls :
    PassedValidation(c) =>
      /\ Len(fetches[c]) = 1
      /\ fetches[c][1].method = "POST"
      /\ fetches[c][1].url = SendUrl
      /\ Len(PostedBody(c).recipients.v) = NumRecipients(calls[c].args)
      /\ Len(PostedBody(c).senders.v) = NumRecipients(calls[c].args)
      /\ \A i \in 1..Len(PostedBody(c).senders.v) :
           PostedBody(c).senders.v[i] = Str(client.from)
      /\ Len(PostedBody(c).messages.v) = NumMessages(calls[c].args)
      /\ NumMessages(calls[c].args) \in {1, NumRecipients(calls[c].args)}
      /\ \A i \in 1..NumMessages(calls[c].args) :
           PostedBody(c).messages.v[i] =
             IF calls[c].args.messages.t = "string"
             THEN calls[c].args.messages.v
             ELSE calls[c].args.messages.v[i]

\* A Send of one bare message to two recipients, posted with one message
\* and two senders.
C7_Witness ==
  \E c \in SendCalls :
    /\ calls[c].args.messages.t = "string"
    /\ NumRecipients(calls[c].args) = 2
    /\ Len(fetches[c]) = 1
    /\ Len(PostedBody(c).messages.v) = 1
    /\ Len(PostedBody(c).senders.v) = 2

\* C8: every Send call whose recipients are not empty and whose messages,
\* not empty either, are one message (a bare string or a one-element
\* sequence) or one per recipient, does not raise the argument error: it
\* calls the transport with the shaped request.
C8_ValidPairReachesTransport ==
  \A c \in SendCalls :
    ValidPair(calls[c].args) =>
      /\ ~RejectedInvalidArgument(c)
      /\ Len(fetches[c]) = 1
      /\ fetches[c][1].url = SendUrl
      /\ PostedBody(c).recipients = WrapString(calls[c].args.recipients)

\* A Send of a one-element messages array to two recipients, awaiting its fetch.
C8_Witness ==
  \E c \in SendCalls :
    /\ calls[c].args.messages.t = "array"
    /\ NumMessages(calls[c].args) = 1
    /\ NumRecipients(calls[c].args) = 2
    /\ calls[c].pc = "awaitFetch"
    /\ Len(fetches[c]) = 1

\* C9: on the envelope code -104 the operation rejects with an error that
\* carries the code -104 and whose message, like GetStatusText(-104), is
\* the catalog string for insufficient credit. (Stated for all calls but a
\* Send whose body has no messages list.)
C9_InsufficientCreditOnMinus104 ==
  \A c \in SettledCalls :
    (HasEnvelopeStatus(c) /\ EnvelopeStatus(c) = -104 /\ ~SendWithoutList(c)) =>
      /\ calls[c].outcome.kind = "rejected"
      /\ calls[c].outcome.error.status = Num(-104)
      /\ calls[c].outcome.error.message = InsufficientCreditText
      /\ GetStatusText(-104) = InsufficientCreditText

ExtrasFields == {"encodings", "uids", "udhs"}

\* An array among encodings, uids and udhs whose length is neither 1 nor
\* the number of recipients.
ExtrasMismatch(args) ==
  \E f \in ExtrasFields :
    args[f].t = "array" /\ Len(args[f].v) \notin {1, NumRecipients(args)}

\* C10, as claimed: every Send call with an array among encodings, uids and
\* udhs whose length is neither 1 nor the number of recipients rejects with
\* the argument error and issues no fetch.
C10_ExtrasMismatchRejected ==
  \A c \in SendCalls :
    ExtrasMismatch(calls[c].args) =>
      /\ fetches[c] = <<>>
      /\ RejectedInvalidArgument(c)

\* C10, amended: Send does not check encodings, uids and udhs. A Send call
\* with such an array of a length that is neither 1 nor the number of
\* recipients, and with a valid (recipients, messages) pair, does not raise
\* the argument error: it issues its POST with the array unchanged in the
\* body.
C10_ExtrasSentUnchecked ==
  \A c \in SendCalls :
    (ExtrasMismatch(calls[c].args) /\ ValidPair(calls[c].args)) =>
      /\ ~RejectedInvalidArgument(c)
      /\ Len(fetches[c]) = 1
      /\ fetches[c][1].url = SendUrl
      /\ \A f \in ExtrasFields :
           calls[c].args[f].t = "array" => PostedBody(c)[f] = calls[c].args[f]

\* A Send to two recipients with three uids, posted with the three uids.
C10_Witness ==
  \E c \in SendCalls :
    /\ NumRecipients(calls[c].args) = 2
    /\ calls[c].args.uids.t = "array"
    /\ Len(calls[c].args.uids.v) = 3
    /\ Len(fetches[c]) = 1
    /\ Len(PostedBody(c).uids.v) = 3

\* The vendor's list and the returned list of a resolved Send call.
VendorList(c) == calls[c].transport.body.v.messages.v
ReturnedList(c) == calls[c].outcome.value.v.messages.v

\* The returned list is the vendor's list entry by entry: same length, same
\* order, every field of the vendor's entry kept, one field message added.
PointwiseImage(c) ==
  /\ Len(ReturnedList(c)) = Len(VendorList(c))
  /\ \A i \in 1..Len(VendorList(c)) :
       /\ DOMAIN ReturnedList(c)[i] = DOMAIN VendorList(c)[i] \cup {"message"}
       /\ \A k \in DOMAIN VendorList(c)[i] : ReturnedList(c)[i][k] = VendorList(c)[i][k]

\* C11, as claimed: whenever Send resolves, the returned messages list is a
\* pointwise image of the vendor's list, and the message of each entry is
\* the catalog lookup of its status: "success" for 0, the vesalErrors text
\* for a catalog key, the empty string for any other code. (Stated for the
\* calls whose envelope does not carry an uncatalogued code.)
C11_MessageIsStatusText ==
  \A c \in SendCalls :
    (calls[c].outcome.kind = "resolved" /\ ~UncataloguedEnvelope(c)) =>
      /\ PointwiseImage(c)
      /\ \A i \in 1..Len(VendorList(c)) :
           ReturnedList(c)[i].message =
             IF VendorList(c)[i].status = 0 THEN "success"
             ELSE IF VendorList(c)[i].status \in DOMAIN vesalErrors
             THEN vesalErrors[VendorList(c)[i].status]
             ELSE ""

\* C11, amended: whenever Send resolves, the returned messages list is a
\* pointwise image of the vendor's list, and the message of each entry is
\* the fixed delivery text of Send for the status 0 (not the "success" of
\* GetStatusText), the vesalErrors text for a catalog key, the empty string
\* for any other code.
C11_MessageIsSentTextOrStatusText ==
  \A c \in SendCalls :
    calls[c].outcome.kind = "resolved" =>
      /\ PointwiseImage(c)
      /\ \A i \in 1..Len(VendorList(c)) :
           ReturnedList(c)[i].message =
             IF VendorList(c)[i].status = 0 THEN SentMessageText
             ELSE IF VendorList(c)[i].status \in DOMAIN vesalErrors
             THEN vesalErrors[VendorList(c)[i].status]
             ELSE ""
      /\ SentMessageText # "success"

\* A Send resolved on a vendor list of a delivered entry and an entry with
\* a code outside the catalog.
C11_Witness ==
  \E c \in SendCalls :
    /\ calls[c].outcome.kind = "resolved"
    /\ Len(VendorList(c)) = 2
    /\ VendorList(c)[1].status = 0
    /\ VendorList(c)[2].status = 999
    /\ ReturnedList(c)[1].message = SentMessageText
    /\ ReturnedList(c)[2].message = ""
    /\ ReturnedList(c)[2].id = VendorList(c)[2].id

\* The call in slot c has reached the transport.
ReachedTransport(c) ==
  calls[c].pc \in {"awaitFetch", "awaitJson"}
    \/ (calls[c].pc = "settled" /\ calls[c].transport.kind # "none")

\* Every call has issued at most one request: none before it starts or when
\* its arguments are refused, one from its fetch on; a call the transport
\* failed, or answered with a catalog key, is rejected with that one request.
OneRequestPerCall ==
  \A c \in Calls :
    /\ Len(fetches[c]) <= 1
    /\ Len(fetches[c]) = IF ReachedTransport(c) THEN 1 ELSE 0
    /\ (calls[c].pc = "settled"
          /\ (TransportFailed(c)
                \/ (HasEnvelopeStatus(c) /\ EnvelopeStatus(c) \in DOMAIN vesalErrors))) =>
         calls[c].outcome.kind = "rejected"

\* No step writes a field of the client, and no step adds a request to a
\* call that has issued one: a call's requests change only when it starts
\* and when its slot is freed.
NoSecondRequestNoClientWrite ==
  /\ client' = client
  /\ \A c \in Calls :
       fetches'[c] # fetches[c] =>
         \/ calls[c].pc = "idle" /\ Len(fetches'[c]) = 1
         \/ calls[c].pc = "settled" /\ calls'[c].pc = "idle" /\ fetches'[c] = <<>>

\* C12: every call of an operation issues at most one transport request; a
\* transport failure, a malformed body or an error envelope rejects the call
\* with no second request; concurrent calls on one client each issue their
\* own single request, and no call writes a field of the client.
C12_OneRequestPerCall ==
  /\ []OneRequestPerCall
  /\ [][NoSecondRequestNoClientWrite]_vars
  /\ [](client = Constructor(Str("user"), "secret", "example", "50002710"))

\* Two calls in flight at once, one rejected on a failed fetch and one
\* awaiting its body, each with its single request.
C12_Witness ==
  \E c, d \in Calls :
    /\ c # d
    /\ calls[c].pc = "settled"
    /\ calls[c].transport.kind = "fetchFailed"
    /\ calls[c].outcome.kind = "rejected"
    /\ Len(fetches[c]) = 1
    /\ calls[d].pc = "awaitJson"
    /\ Len(fetches[d]) = 1
    /\ fetches[c][1].url # fetches[d][1].url

====
